---- MODULE Spec2Model ----
(***************************************************************************)
(* The extraction job manager (ZoneExtractionManager) and the pipeline run *)
(* (ZoneExtractor.build_dom_once) of src/zone_extractor.py as a state      *)
(* machine: client threads calling submit / cancel / cancel_all_pending /  *)
(* shutdown, and the manager's worker threads running _worker_loop.        *)
(* A step is one access to shared state (a queue operation, an Event       *)
(* set/is_set, the section under _current_job_lock when it holds a single  *)
(* access); the drain loops of cancel and _flush_pending_jobs, which run   *)
(* under the lock while the workers' queue.get does not take it, advance   *)
(* one iteration per step.                                                 *)
(***************************************************************************)
EXTENDS Integers, Sequences, FiniteSets, TLC

\* ---------------------------------------------------------------- bounds
MaxJobs == 2       \* submit calls in one behaviour of the full API
MaxQueueJobs == 3  \* submit calls in one behaviour under the queue policy
MaxWorkers == 2    \* largest max_workers the constructor is given
MaxCallers == 2    \* client threads calling the public API concurrently
MaxCancels == 1    \* cancel / cancel_all_pending calls in one behaviour
MaxPages == 2      \* page_count of the documents
MaxBatch == 2      \* largest ExtractorConfig.batch_size
MaxDocJobs == 2    \* submit calls in one behaviour of the pipeline runs
MaxDocPages == 3   \* largest page_count of the documents of the pipeline runs
MaxDocBatch == 2   \* largest batch_size of the pipeline runs
MaxOffset == 1     \* largest page_offset a job is submitted with
MaxStorePages == 2 \* pages of the document open in the viewer
MaxZones == 3      \* zone dicts created in one behaviour of the viewer
MaxBoxes == 2      \* boxes the detector returns for one page
MaxSelected == 2   \* zone items selected at once
MaxEdits == 1      \* edits the user makes in one behaviour of the viewer
MaxMergeZones == 3 \* zones the user draws before merging them
MaxMerges == 2     \* merges that follow
MaxSessionEdits == 3 \* edits of an editing session on one page
MaxDocs == 2         \* documents the user opens one after the other
MaxDocEdits == 1     \* zones the user draws while documents are extracted
PageHeight == 100  \* page.rect.height of every page
BoxSize == 20      \* width and height of a detected box and of a drawn rect
BoxStep == 40      \* distance between the tops the rectangles are drawn at

JobIds == 1..MaxQueueJobs
Workers == 1..MaxWorkers
Callers == 1..MaxCallers
NoJob == 0         \* None: the sentinel in the queue, the empty _current_job

Policies == {"queue", "replace", "drop_old"}

VARIABLES
    jobs,          \* self._jobs: the FIFO queue, a sequence of job ids and sentinels
    current_job,   \* self._current_job (NoJob for None)
    lock,          \* self._current_job_lock: 0 when free, else the caller holding it
    shutdown_flag, \* self._shutdown
    id_counter,    \* the value next(self._id_counter) returns next
    cancel_event,  \* job.cancel_event of every job
    max_workers,   \* self._max_workers
    total_pages,   \* pdf_document.page_count
    batch_size,    \* cfg.batch_size
    page_offset,   \* job.page_offset, the same for the jobs of one behaviour
    wk,            \* per worker thread: position in _worker_loop and its locals
    cl,            \* per client thread: position in the API call and its locals
    life,          \* history: where every job is in its lifecycle
    fin,           \* history: how many times job.on_finish was invoked
    res,           \* history: the argument of the last on_finish call
    enq_order,     \* history: the jobs in the order submit enqueued them
    cb_raised,     \* history: some on_finish callback raised
    ncancels,      \* history: cancel / cancel_all_pending calls made
    heap,          \* the zone dicts of the viewer: heap[z] is the dict with identity z
    zones_data_by_page, \* viewer.zones_data_by_page: a list of dicts per page
    zones_data,    \* viewer.zones_data: the flat list of the delivered dicts
    scene_items,   \* per page: the ResizableZone items of the page's scene
    active_scenes, \* the keys of viewer.active_scenes
    current_page,  \* viewer.current_page
    last_op,       \* history: the last Zone Store operation and how it ended
    edits,         \* history: the number of edits the user has made
    retired,       \* history: the block_ids of the zones deleted or merged away
    pdf_doc,       \* viewer.pdf_doc: the number of the open document, 0 for None
    extraction,    \* the extraction jobs the viewer submitted, the running one first
    ui_events,     \* the queued _update_page_ui calls of the UI thread's event loop
    predictor_instance, \* _LayoutPredictorSingleton._instance: 0 for None, else the
                   \* number of the LayoutPredictor object it refers to
    predictor_lock,     \* _LayoutPredictorSingleton._lock: 0 when free, else the holder
    constructed,   \* history: LayoutPredictor() constructor calls made
    predictor      \* per worker thread: the local `predictor` of _worker_loop

vars == <<jobs, current_job, lock, shutdown_flag, id_counter, cancel_event,
          max_workers, total_pages, batch_size, page_offset, wk, cl, life, fin, res,
          enq_order, cb_raised, ncancels, heap, zones_data_by_page, zones_data,
          scene_items, active_scenes, current_page, last_op, edits, retired,
          pdf_doc, extraction, ui_events, predictor_instance, predictor_lock,
          constructed, predictor>>

mgr_vars == <<jobs, current_job, lock, shutdown_flag, id_counter, cancel_event>>
pred_vars == <<predictor_instance, predictor_lock, constructed, predictor>>
cfg_vars == <<max_workers, total_pages, batch_size, page_offset, pred_vars>>
hist_vars == <<life, fin, res, enq_order, cb_raised>>
doc_vars == <<pdf_doc, extraction, ui_events>>
store_vars == <<heap, zones_data_by_page, zones_data, scene_items,
                active_scenes, current_page, last_op, edits, retired, doc_vars>>

\* ------------------------------------------------------------- helpers
Min(a, b) == IF a < b THEN a ELSE b
Max(a, b) == IF a > b THEN a ELSE b
SeqToSet(s) == {s[i] : i \in 1..Len(s)}

\* queue.Queue.get / get_nowait: the item returned, and the queue left behind
QueueHead(q) == Head(q)
DequeuePeek(q) == q
Dequeue(q) == Tail(q)

\* queue.Queue.put: the item goes to the back of the FIFO
PutFront(q, item) == <<item>> \o q
Put(q, item) == Append(q, item)

\* bs = max(1, self.cfg.batch_size)
BatchStep == Max(1, batch_size)

IdleWorker ==
    [pc |-> "loop", job |-> NoJob, ext |-> FALSE, start |-> 0, pno |-> 0,
     nimg |-> 0, idx |-> 0, exc |-> "none", observed |-> FALSE, det |-> 0,
     pages |-> 0, log |-> <<>>]
OffWorker == [IdleWorker EXCEPT !.pc = "off"]
IdleCaller ==
    [pc |-> "idle", op |-> "none", job |-> NoJob, new_q |-> <<>>,
     canceled |-> FALSE, snap |-> {}, snap_cur |-> NoJob, at_call |-> "none",
     k |-> 0]

\* for i in range(self._max_workers): a worker thread is started
StartedAll(w) == TRUE
Started(w) == w <= max_workers

\* ZoneExtractionManager.__init__: an empty queue, no current job, the
\* shutdown event clear, the id counter at 1, max(1, max_workers) workers.
InitManager ==
    /\ jobs = <<>>
    /\ current_job = NoJob
    /\ lock = 0
    /\ shutdown_flag = FALSE
    /\ id_counter = 1
    /\ cancel_event = [j \in JobIds |-> FALSE]
    /\ max_workers \in 1..MaxWorkers
    /\ wk = [w \in Workers |-> IF Started(w) THEN IdleWorker ELSE OffWorker]
    /\ cl = [c \in Callers |-> IdleCaller]
    /\ life = [j \in JobIds |-> "none"]
    /\ fin = [j \in JobIds |-> 0]
    /\ res = [j \in JobIds |-> "-"]
    /\ enq_order = <<>>
    /\ cb_raised = FALSE
    /\ ncancels = 0

\* the workers have passed `predictor = _LayoutPredictorSingleton.get()`:
\* the detector is constructed and every worker holds it
InitPredictor ==
    /\ predictor_instance = 1
    /\ predictor_lock = 0
    /\ constructed = 1
    /\ predictor = [w \in Workers |-> 1]

\* PDFViewer.__init__ and open_pdf: no zone, page 0 is the current page and
\* its view is not built yet
InitStore ==
    /\ heap = <<>>
    /\ zones_data_by_page = [p \in 0..(MaxStorePages - 1) |-> <<>>]
    /\ zones_data = <<>>
    /\ scene_items = [p \in 0..(MaxStorePages - 1) |-> {}]
    /\ active_scenes = {}
    /\ current_page = 0
    /\ last_op = [op |-> "none", outcome |-> "none", pages |-> <<>>,
                  zones |-> <<>>, arg |-> <<>>]
    /\ edits = 0
    /\ retired = {}
    /\ pdf_doc = 0
    /\ extraction = <<>>
    /\ ui_events = <<>>

\* the documents have MaxPages pages and are processed with batch_size
\* MaxBatch and page_offset 0
Init ==
    /\ InitManager
    /\ InitPredictor
    /\ InitStore
    /\ total_pages = MaxPages
    /\ batch_size = MaxBatch
    /\ page_offset = 0

\* ------------------------------------------------------ the worker loop
SetWorker(w, r) == wk' = [wk EXCEPT ![w] = r]

\* _finish(job, extractor): on_finish(extractor) is invoked; an exception it
\* raises is caught and logged.
FinishCall(j, extractor, raises) ==
    /\ fin' = [fin EXCEPT ![j] = Min(@ + 1, 2)]
    /\ res' = [res EXCEPT ![j] = IF extractor THEN "extractor" ELSE "null"]
    /\ cb_raised' = (cb_raised \/ raises)
    /\ life' = [life EXCEPT ![j] = "finished"]

\* while not self._shutdown.is_set():
WorkerLoop(w) ==
    /\ wk[w].pc = "loop"
    /\ SetWorker(w, [wk[w] EXCEPT !.pc = IF shutdown_flag THEN "exit" ELSE "get"])
    /\ UNCHANGED <<mgr_vars, cfg_vars, store_vars, cl, hist_vars, ncancels>>

\* job = self._jobs.get(timeout=0.25): queue.Empty after the timeout ->
\* continue; the sentinel -> break; else the job is the worker's.
WorkerGet(w) ==
    /\ wk[w].pc = "get"
    /\ IF jobs = <<>>
       THEN /\ SetWorker(w, [wk[w] EXCEPT !.pc = "loop"])
            /\ UNCHANGED <<jobs, life>>
       ELSE /\ jobs' = Dequeue(jobs)
            /\ IF QueueHead(jobs) = NoJob
               THEN /\ SetWorker(w, [wk[w] EXCEPT !.pc = "exit"])
                    /\ UNCHANGED life
               ELSE /\ SetWorker(w, [wk[w] EXCEPT !.pc = "setcur",
                                                  !.job = QueueHead(jobs)])
                    /\ life' = [life EXCEPT ![QueueHead(jobs)] = "taken"]
    /\ UNCHANGED <<current_job, lock, shutdown_flag, id_counter, cancel_event,
                   cfg_vars, store_vars, cl, fin, res, enq_order, cb_raised, ncancels>>

\* with self._current_job_lock: self._current_job = job
WorkerSetCurrent(w) ==
    /\ wk[w].pc = "setcur"
    /\ lock = 0
    /\ current_job' = wk[w].job
    /\ SetWorker(w, [wk[w] EXCEPT !.pc = "chk"])
    /\ UNCHANGED <<jobs, lock, shutdown_flag, id_counter, cancel_event,
                   cfg_vars, store_vars, cl, hist_vars, ncancels>>

\* build_dom_once is left (the batch loop ended or was broken, or an
\* exception went through its finally): the loop locals are dead.
LeaveRun(r) == [r EXCEPT !.pc = "fin", !.start = 0, !.pno = 0, !.nimg = 0,
                         !.idx = 0]

\* an exception in the worker's try block: each except clause sets
\* extractor = None, and the finally clause goes on to _finish
RaiseUncaught(r, what) == [r EXCEPT !.pc = "exit"]
RaiseKeepsExtractor(r, what) == [LeaveRun(r) EXCEPT !.exc = what]
Raise(r, what) == [LeaveRun(r) EXCEPT !.ext = FALSE, !.exc = what]

\* if job.cancel_event.is_set(): self._finish(job, None); continue
\* else: extractor = ZoneExtractor(...); build_dom_once opens the document
\* (fitz.open raises for a bad path or an unreadable file).
WorkerCheck(w) ==
    /\ wk[w].pc = "chk"
    /\ LET j == wk[w].job IN
       IF cancel_event[j]
       THEN /\ \E raises \in BOOLEAN : FinishCall(j, FALSE, raises)
            /\ SetWorker(w, [IdleWorker EXCEPT !.pc = "loop"])
       ELSE /\ life' = [life EXCEPT ![j] = "running"]
            /\ \E opens \in BOOLEAN :
                 IF opens
                 THEN SetWorker(w, [wk[w] EXCEPT !.pc = "batch", !.ext = TRUE,
                                                !.start = 0])
                 ELSE SetWorker(w, Raise([wk[w] EXCEPT !.ext = TRUE], "open"))
            /\ UNCHANGED <<fin, res, cb_raised>>
    /\ UNCHANGED <<mgr_vars, cfg_vars, store_vars, cl, enq_order, ncancels>>

\* for start in range(0, total_pages, bs): the check between batches
WorkerBatch(w) ==
    /\ wk[w].pc = "batch"
    /\ IF wk[w].start >= total_pages
       THEN SetWorker(w, LeaveRun(wk[w]))
       ELSE IF cancel_event[wk[w].job]
            THEN SetWorker(w, LeaveRun([wk[w] EXCEPT !.observed = TRUE]))
            ELSE SetWorker(w, [wk[w] EXCEPT !.pc = "raster", !.pno = wk[w].start,
                                            !.nimg = 0])
    /\ UNCHANGED <<mgr_vars, cfg_vars, store_vars, cl, hist_vars, ncancels>>

\* where build_dom_once goes when the rasterizing loop ends or is broken:
\* `if not images: break` leaves the batch loop, else the detector is called
\* on the images rasterized so far
AfterRaster(r) == IF r.nimg = 0 THEN LeaveRun(r)
                  ELSE [r EXCEPT !.pc = "detect", !.pno = 0]

\* for pno in range(start, end): if cancel_event.is_set(): break;
\* pages.append(page); images.append(_pdf_page_to_pil(page, dpi))
WorkerRaster(w) ==
    /\ wk[w].pc = "raster"
    /\ LET end == Min(total_pages, wk[w].start + BatchStep) IN
       IF wk[w].pno >= end
       THEN SetWorker(w, AfterRaster(wk[w]))
       ELSE IF cancel_event[wk[w].job]
            THEN SetWorker(w, AfterRaster([wk[w] EXCEPT !.observed = TRUE]))
            ELSE SetWorker(w, [wk[w] EXCEPT !.pno = @ + 1, !.nimg = @ + 1])
    /\ UNCHANGED <<mgr_vars, cfg_vars, store_vars, cl, hist_vars, ncancels>>

\* layout_results = self.layout_predictor(images): one call per micro-batch;
\* an exception of the detector leaves build_dom_once and is caught by the
\* worker's except Exception, which sets extractor = None.
WorkerDetect(w) ==
    /\ wk[w].pc = "detect"
    /\ \E raises \in BOOLEAN :
         IF raises
         THEN SetWorker(w, Raise([wk[w] EXCEPT !.det = @ + 1], "detector"))
         ELSE SetWorker(w, [wk[w] EXCEPT !.pc = "conv", !.idx = 0,
                                        !.det = @ + 1])
    /\ UNCHANGED <<mgr_vars, cfg_vars, store_vars, cl, hist_vars, ncancels>>

\* the batch loop's next iteration: start advances by bs
NextBatch(r) == [r EXCEPT !.pc = "batch", !.start = @ + BatchStep, !.nimg = 0,
                          !.idx = 0]

\* page_idx = start + local_idx
PageIdxLocal(start, local_idx) == local_idx
PageIdx(start, local_idx) == start + local_idx

\* page_num = page_idx + page_offset
PageNum(page_idx) == page_idx + page_offset

\* self._flush_page_zones(page_num, zones): page_callback(page_num, zones)
OnPage(r, page_num) == [r EXCEPT !.pages = @ + 1, !.log = Append(@, page_num)]

\* for local_idx, layout_result in enumerate(layout_results): the check
\* between pages (break leaves this loop only: the batch loop goes on),
\* _convert_layout_to_zones (no try/except around it: an exception of the
\* text aggregation leaves build_dom_once), and `if zones:
\* self._flush_page_zones(...)`, which calls page_callback; an exception it
\* raises leaves build_dom_once too.
WorkerConvert(w) ==
    /\ wk[w].pc = "conv"
    /\ IF wk[w].idx >= wk[w].nimg
       THEN SetWorker(w, NextBatch(wk[w]))
       ELSE IF cancel_event[wk[w].job]
            THEN SetWorker(w, NextBatch([wk[w] EXCEPT !.observed = TRUE]))
            ELSE \E outcome \in {"raises", "empty", "zones", "cb_raises"} :
                   LET page_num == PageNum(PageIdx(wk[w].start, wk[w].idx)) IN
                   CASE outcome = "raises" ->
                          SetWorker(w, Raise(wk[w], "convert"))
                     [] outcome = "empty" ->
                          SetWorker(w, [wk[w] EXCEPT !.idx = @ + 1])
                     [] outcome = "zones" ->
                          SetWorker(w, [OnPage(wk[w], page_num) EXCEPT !.idx = @ + 1])
                     [] outcome = "cb_raises" ->
                          SetWorker(w, Raise(OnPage(wk[w], page_num), "callback"))
    /\ UNCHANGED <<mgr_vars, cfg_vars, store_vars, cl, hist_vars, ncancels>>

\* finally: self._finish(job, extractor)
WorkerFinish(w) ==
    /\ wk[w].pc = "fin"
    /\ \E raises \in BOOLEAN : FinishCall(wk[w].job, wk[w].ext, raises)
    /\ SetWorker(w, [IdleWorker EXCEPT !.pc = "clear", !.job = wk[w].job,
                                       !.exc = wk[w].exc])
    /\ UNCHANGED <<mgr_vars, cfg_vars, store_vars, cl, enq_order, ncancels>>

\* finally: with self._current_job_lock: self._current_job = None
WorkerClear(w) ==
    /\ wk[w].pc = "clear"
    /\ lock = 0
    /\ current_job' = NoJob
    /\ SetWorker(w, IdleWorker)
    /\ UNCHANGED <<jobs, lock, shutdown_flag, id_counter, cancel_event,
                   cfg_vars, store_vars, cl, hist_vars, ncancels>>

WorkerStep(w) ==
    \/ WorkerLoop(w)
    \/ WorkerGet(w)
    \/ WorkerSetCurrent(w)
    \/ WorkerCheck(w)
    \/ WorkerBatch(w)
    \/ WorkerRaster(w)
    \/ WorkerDetect(w)
    \/ WorkerConvert(w)
    \/ WorkerFinish(w)
    \/ WorkerClear(w)

\* ------------------------------------------------------- the public API
SetCaller(c, r) == cl' = [cl EXCEPT ![c] = r]
Pending(q) == SeqToSet(q) \ {NoJob}

\* submit: job_id = next(self._id_counter); job = _QueuedJob(...)
SubmitBegin(c, policy) ==
    /\ cl[c].pc = "idle"
    /\ id_counter' = id_counter + 1
    /\ SetCaller(c, [IdleCaller EXCEPT !.pc = "s_lock", !.op = policy,
                                       !.job = id_counter])
    /\ life' = [life EXCEPT ![id_counter] = "created"]
    /\ UNCHANGED <<jobs, current_job, lock, shutdown_flag, cancel_event,
                   cfg_vars, store_vars, wk, fin, res, enq_order, cb_raised, ncancels>>

\* self._jobs.put(job) at the end of each policy branch of submit
Enqueue(j) ==
    /\ jobs' = Put(jobs, j)
    /\ enq_order' = Append(enq_order, j)
    /\ life' = [life EXCEPT ![j] = "queued"]

\* submit: with self._current_job_lock: the policy branch up to the flush.
\* queue: put and leave. replace: set the current job's cancel_event, then
\* flush. drop_old: flush.
SubmitLock(c) ==
    /\ cl[c].pc = "s_lock"
    /\ lock = 0
    /\ IF cl[c].op = "queue"
       THEN /\ Enqueue(cl[c].job)
            /\ SetCaller(c, IdleCaller)
            /\ UNCHANGED <<lock, cancel_event>>
       ELSE /\ lock' = c
            /\ SetCaller(c, [cl[c] EXCEPT !.pc = "flush", !.snap = Pending(jobs),
                                          !.snap_cur = current_job])
            /\ cancel_event' =
                 IF cl[c].op = "replace" /\ current_job # NoJob
                 THEN [cancel_event EXCEPT ![current_job] = TRUE]
                 ELSE cancel_event
            /\ UNCHANGED <<jobs, enq_order, life>>
    /\ UNCHANGED <<current_job, shutdown_flag, id_counter, cfg_vars, store_vars, wk, fin,
                   res, cb_raised, ncancels>>

\* cancel_all_pending: with self._current_job_lock: self._flush_pending_jobs()
CancelAllPending(c) ==
    /\ cl[c].pc = "idle"
    /\ lock = 0
    /\ ncancels < MaxCancels
    /\ ncancels' = ncancels + 1
    /\ lock' = c
    /\ SetCaller(c, [IdleCaller EXCEPT !.pc = "flush", !.op = "cancel_all",
                                       !.snap = Pending(jobs)])
    /\ UNCHANGED <<jobs, current_job, shutdown_flag, id_counter, cancel_event,
                   cfg_vars, store_vars, wk, hist_vars>>

\* _flush_pending_jobs, one iteration of `while not self._jobs.empty()`:
\* get_nowait, skip a sentinel, set the item's cancel_event; nothing is
\* requeued and no callback is invoked. queue.Empty ends the loop like
\* empty() does. After the loop cancel_all_pending releases the lock and
\* submit goes on to put the new job.
Flush(c) ==
    /\ cl[c].pc = "flush"
    /\ IF jobs = <<>>
       THEN /\ IF cl[c].op = "cancel_all"
               THEN lock' = 0 /\ SetCaller(c, IdleCaller)
               ELSE lock' = lock /\ SetCaller(c, [cl[c] EXCEPT !.pc = "s_put"])
            /\ UNCHANGED <<jobs, cancel_event, life>>
       ELSE /\ jobs' = Dequeue(jobs)
            /\ IF QueueHead(jobs) = NoJob
               THEN UNCHANGED <<cancel_event, life>>
               ELSE /\ cancel_event' = [cancel_event EXCEPT ![QueueHead(jobs)] = TRUE]
                    /\ life' = [life EXCEPT ![QueueHead(jobs)] =
                                 IF cl[c].op = "cancel_all" THEN "dropped"
                                 ELSE "discarded"]
            /\ UNCHANGED <<lock, cl>>
    /\ UNCHANGED <<current_job, shutdown_flag, id_counter, cfg_vars, store_vars, wk, fin,
                   res, enq_order, cb_raised, ncancels>>

\* submit, policies replace and drop_old: self._jobs.put(job) after the
\* flush, and the lock is released
SubmitPut(c) ==
    /\ cl[c].pc = "s_put"
    /\ Enqueue(cl[c].job)
    /\ lock' = 0
    /\ SetCaller(c, IdleCaller)
    /\ UNCHANGED <<current_job, shutdown_flag, id_counter, cancel_event,
                   cfg_vars, store_vars, wk, fin, res, cb_raised, ncancels>>

\* cancel(job_id): with self._current_job_lock: if the current job has this
\* id, set its cancel_event and return True; else start rebuilding the queue.
CancelCall(c, job_id) ==
    /\ cl[c].pc = "idle"
    /\ lock = 0
    /\ ncancels < MaxCancels
    /\ ncancels' = ncancels + 1
    /\ IF current_job # NoJob /\ current_job = job_id
       THEN /\ cancel_event' = [cancel_event EXCEPT ![job_id] = TRUE]
            /\ SetCaller(c, IdleCaller)
            /\ UNCHANGED lock
       ELSE /\ lock' = c
            /\ SetCaller(c, [IdleCaller EXCEPT !.pc = "c_empty", !.op = "cancel",
                                               !.job = job_id,
                                               !.at_call = life[job_id]])
            /\ UNCHANGED cancel_event
    /\ UNCHANGED <<jobs, current_job, shutdown_flag, id_counter, cfg_vars, store_vars, wk,
                   hist_vars>>

\* cancel: `while not self._jobs.empty()`; when the loop ends,
\* self._jobs = new_q; return canceled
CancelEmpty(c) ==
    /\ cl[c].pc = "c_empty"
    /\ IF jobs = <<>>
       THEN /\ jobs' = cl[c].new_q
            /\ lock' = 0
            /\ SetCaller(c, IdleCaller)
       ELSE /\ SetCaller(c, [cl[c] EXCEPT !.pc = "c_get"])
            /\ UNCHANGED <<jobs, lock>>
    /\ UNCHANGED <<current_job, shutdown_flag, id_counter, cancel_event,
                   cfg_vars, store_vars, wk, hist_vars, ncancels>>

\* cancel: item = self._jobs.get_nowait() raises queue.Empty when a worker
\* has emptied the queue since empty(), and item.job_id raises for a
\* sentinel: the exception leaves cancel, the lock is released, self._jobs
\* is not replaced and the items moved to new_q are dropped. Otherwise the
\* item is the job (cancel_event set, not requeued) or is put into new_q.
CancelGet(c) ==
    /\ cl[c].pc = "c_get"
    /\ IF jobs = <<>> \/ QueueHead(jobs) = NoJob
       THEN /\ jobs' = IF jobs = <<>> THEN jobs ELSE Dequeue(jobs)
            /\ lock' = 0
            /\ SetCaller(c, IdleCaller)
            /\ life' = [j \in JobIds |->
                          IF j \in SeqToSet(cl[c].new_q) THEN "lost" ELSE life[j]]
            /\ UNCHANGED cancel_event
       ELSE /\ jobs' = Dequeue(jobs)
            /\ IF QueueHead(jobs) = cl[c].job
               THEN /\ cancel_event' = [cancel_event EXCEPT ![cl[c].job] = TRUE]
                    /\ SetCaller(c, [cl[c] EXCEPT !.pc = "c_empty",
                                                  !.canceled = TRUE])
                    /\ life' = [life EXCEPT ![cl[c].job] = "discarded"]
               ELSE /\ SetCaller(c, [cl[c] EXCEPT !.pc = "c_empty",
                                       !.new_q = Put(cl[c].new_q, QueueHead(jobs))])
                    /\ UNCHANGED <<cancel_event, life>>
            /\ UNCHANGED lock
    /\ UNCHANGED <<current_job, shutdown_flag, id_counter, cfg_vars, store_vars, wk, fin,
                   res, enq_order, cb_raised, ncancels>>

\* shutdown: self._shutdown.set()
ShutdownBegin(c) ==
    /\ cl[c].pc = "idle"
    /\ ~shutdown_flag
    /\ shutdown_flag' = TRUE
    /\ SetCaller(c, [IdleCaller EXCEPT !.pc = "sd_lock", !.op = "shutdown"])
    /\ UNCHANGED <<jobs, current_job, lock, id_counter, cancel_event, cfg_vars, store_vars,
                   wk, hist_vars, ncancels>>

\* shutdown: with self._current_job_lock: if self._current_job: set its event
ShutdownLock(c) ==
    /\ cl[c].pc = "sd_lock"
    /\ lock = 0
    /\ cancel_event' = IF current_job # NoJob
                       THEN [cancel_event EXCEPT ![current_job] = TRUE]
                       ELSE cancel_event
    /\ SetCaller(c, [cl[c] EXCEPT !.pc = "sd_put", !.k = 0])
    /\ UNCHANGED <<jobs, current_job, lock, shutdown_flag, id_counter, cfg_vars, store_vars,
                   wk, hist_vars, ncancels>>

\* shutdown: for _ in self._workers: self._jobs.put(None); the joins that
\* follow wait at most a second each and change nothing.
ShutdownPut(c) ==
    /\ cl[c].pc = "sd_put"
    /\ jobs' = Put(jobs, NoJob)
    /\ IF cl[c].k + 1 >= max_workers
       THEN SetCaller(c, IdleCaller)
       ELSE SetCaller(c, [cl[c] EXCEPT !.k = @ + 1])
    /\ UNCHANGED <<current_job, lock, shutdown_flag, id_counter, cancel_event,
                   cfg_vars, store_vars, wk, hist_vars, ncancels>>

Submit(c) ==
    /\ id_counter <= MaxJobs
    /\ \E policy \in Policies : SubmitBegin(c, policy)
Cancel(c) == \E job_id \in 1..(id_counter - 1) : CancelCall(c, job_id)

Next ==
    \/ \E c \in Callers : Submit(c)
    \/ \E c \in Callers : SubmitLock(c)
    \/ \E c \in Callers : CancelAllPending(c)
    \/ \E c \in Callers : Flush(c)
    \/ \E c \in Callers : SubmitPut(c)
    \/ \E c \in Callers : Cancel(c)
    \/ \E c \in Callers : CancelEmpty(c)
    \/ \E c \in Callers : CancelGet(c)
    \/ \E c \in Callers : ShutdownBegin(c)
    \/ \E c \in Callers : ShutdownLock(c)
    \/ \E c \in Callers : ShutdownPut(c)
    \/ \E w \in Workers : WorkerStep(w)

Spec == Init /\ [][Next]_vars

\* The queue policy alone with the default single worker: no cancel, no
\* cancel_all_pending, no shutdown. The worker thread is scheduled as long
\* as it has a step to take.
SubmitQueue(c) ==
    /\ id_counter <= MaxQueueJobs
    /\ SubmitBegin(c, "queue")

InitQ == Init /\ max_workers = 1

NextQ ==
    \/ \E c \in Callers : SubmitQueue(c)
    \/ \E c \in Callers : SubmitLock(c)
    \/ \E w \in Workers : WorkerStep(w)

SpecQ == InitQ /\ [][NextQ]_vars /\ WF_vars(\E w \in Workers : WorkerStep(w))

\* The pipeline runs: the queue policy with a single worker over documents
\* of 0..MaxDocPages pages, batch sizes 0..MaxDocBatch (0 is raised to 1 by
\* build_dom_once) and page offsets 0..MaxOffset.
SubmitDoc(c) ==
    /\ id_counter <= MaxDocJobs
    /\ SubmitBegin(c, "queue")

InitP ==
    /\ InitManager
    /\ InitPredictor
    /\ InitStore
    /\ max_workers = 1
    /\ total_pages \in 0..MaxDocPages
    /\ batch_size \in 0..MaxDocBatch
    /\ page_offset \in 0..MaxOffset

NextP ==
    \/ \E c \in Callers : SubmitDoc(c)
    \/ \E c \in Callers : SubmitLock(c)
    \/ \E w \in Workers : WorkerStep(w)

SpecP == InitP /\ [][NextP]_vars /\ WF_vars(\E w \in Workers : WorkerStep(w))

\* ----------------------------------------------------------- the Zone Store
\* The viewer's zone lists (PDFViewer.zones_data_by_page) and the handlers
\* of the UI thread that change them. A zone dict is a record; None and a
\* missing key are <<>> (0 for sequence_number). The identifier strings
\* "pz{n}-{k}" and "z{n}-{k}" are the pairs <<n, k>>. The dicts are shared
\* between the page lists, viewer.zones_data and the scene items, so they
\* live in a heap and the lists hold their identities. The zoom factor is 1
\* and the page image has the size of the page. Each handler runs to its
\* end on the UI thread: one step per handler.
Pages == 0..(MaxStorePages - 1)
NoValue == <<>>
ColumnSplit == 200
UnusableKey == 1000000000
Types == {"title"}
Labels == {"Text"}
ColorOf(type) == <<"color", type>>

\* the tuple keys (a, b) of sorted() and list.sort(), which are stable
LexLess(a, b) == a[1] < b[1] \/ (a[1] = b[1] /\ a[2] < b[2])
SortOrder(keys) ==
    LET n == Len(keys) IN
    CHOOSE p \in [1..n -> 1..n] :
        /\ \A i, j \in 1..n : i # j => p[i] # p[j]
        /\ \A i \in 1..(n - 1) :
             \/ LexLess(keys[p[i]], keys[p[i + 1]])
             \/ keys[p[i]] = keys[p[i + 1]] /\ p[i] < p[i + 1]
SortBy(s, keys) == [i \in 1..Len(s) |-> s[SortOrder(keys)[i]]]

\* the boxes of a LayoutResult: bbox in image coordinates (None or too short
\* when not usable), label, position
Boxes ==
    [usable : BOOLEAN, x1 : {0}, y1 : {0, BoxStep},
     label : Labels, position : {0, 1}]
BoxLists == UNION {[1..n -> Boxes] : n \in 1..MaxBoxes}

\* sort_key(box) = (position, y1), y1 = 1e9 for a box without bbox
BoxKey(box) == <<box.position, IF box.usable THEN box.y1 ELSE UnusableKey>>

\* the zone dict _convert_layout_to_zones builds for the box at place
\* block_count of the sorted boxes (scale 1)
PipelineZone(box, page_num, block_count) ==
    [block_id |-> <<page_num + 1, block_count>>,
     span_id |-> <<page_num + 1, block_count>>,
     x |-> box.x1, y |-> box.y1, width |-> BoxSize, height |-> BoxSize,
     page |-> page_num,
     bbox |-> <<box.x1, box.y1, BoxSize, BoxSize>>,
     sequence_number |-> 0,
     type |-> box.label, zone_color |-> ColorOf(box.label),
     zone_object |-> "dict", action_type |-> "self"]

\* _convert_layout_to_zones: the boxes sorted by sort_key, enumerated from 1,
\* the boxes without a usable bbox skipped by `continue`
ConvertLayoutToZones(boxes, page_num) ==
    LET sorted == SortBy(boxes, [i \in 1..Len(boxes) |-> BoxKey(boxes[i])])
        counted == [i \in 1..Len(sorted) |-> [box |-> sorted[i], block_count |-> i]]
        kept == SelectSeq(counted, LAMBDA c : c.box.usable)
    IN  [i \in 1..Len(kept) |-> PipelineZone(kept[i].box, page_num,
                                               kept[i].block_count)]

NoScene == 0 - 1
pipeline_vars == <<mgr_vars, cfg_vars, wk, cl, hist_vars, ncancels>>

\* the viewer's state as one value, and the step that installs a new one
StoreState ==
    [heap |-> heap, by_page |-> zones_data_by_page, flat |-> zones_data,
     items |-> scene_items, active |-> active_scenes, cur |-> current_page]
\* the handlers of the user's edits
EditOps ==
    {"insert", "merge", "swap_sequence", "update_geometry", "retype", "delete"}

\* last_op is the handler that ran last, how it ended (ok, rejected with a
\* warning, error shown by an except clause) and, for a merge, the page
\* fields of the zones it was called with
\* the zones that are in a page's list
Listed(by_page) == UNION {SeqToSet(by_page[p]) : p \in DOMAIN by_page}

\* last_op.zones are the zone dicts of the items the handler was called
\* with, last_op.arg its other argument (the new type of a retype, whether
\* the item was moved before a release). retired gets the block_ids of the
\* zones a successful delete or merge took from the lists; the first zone
\* of a merge, whose block_id goes to the merged zone, is not counted.
StoreUpdate(st, op, outcome, pages, zones, arg) ==
    LET gone == (Listed(zones_data_by_page) \ Listed(st.by_page))
                \ (IF op = "merge" /\ zones # <<>> THEN {zones[1]} ELSE {})
    IN  /\ heap' = st.heap
        /\ zones_data_by_page' = st.by_page
        /\ zones_data' = st.flat
        /\ scene_items' = st.items
        /\ active_scenes' = st.active
        /\ current_page' = st.cur
        /\ last_op' = [op |-> op, outcome |-> outcome, pages |-> pages,
                       zones |-> zones, arg |-> arg]
        /\ edits' = IF op \in EditOps THEN edits + 1 ELSE edits
        /\ retired' = IF op \in {"delete", "merge"} /\ outcome = "ok"
                      THEN retired \cup {heap[z].block_id : z \in gone}
                      ELSE retired
        /\ UNCHANGED pipeline_vars
SetStoreSel(st, op, outcome, pages, zones, arg) ==
    /\ StoreUpdate(st, op, outcome, pages, zones, arg)
    /\ UNCHANGED doc_vars
SetStoreOf(st, op, outcome, pages) ==
    SetStoreSel(st, op, outcome, pages, <<>>, <<>>)
SetStore(st, op, outcome) == SetStoreOf(st, op, outcome, <<>>)

FirstIndex(s, Test(_)) ==
    IF \E i \in 1..Len(s) : Test(s[i])
    THEN CHOOSE i \in 1..Len(s) : Test(s[i]) /\ \A k \in 1..(i - 1) : ~Test(s[k])
    ELSE 0
RemoveAt(s, i) == SubSeq(s, 1, i - 1) \o SubSeq(s, i + 1, Len(s))

\* active_scenes.get(page_number)
SceneFor(st, page_number) ==
    IF page_number \in st.active THEN page_number ELSE NoScene

\* QRectF(x * zoom, y * zoom, w * zoom, h * zoom): left, top, width, height
RectOf(zone) == <<zone.x, zone.y, zone.width, zone.height>>

\* addzones_to_scene_fast(viewer, scene, page_number, used_zoom,
\* re_arranged_sequence): without a scene the first scene access raises and
\* the handler's except logs it. Else the scene's zone items are removed,
\* the page's zones are taken in sequence_number order when one of them has
\* one, the sequence numbers are (re)assigned and the items rebuilt.
AddZonesToSceneFast(st, scene, page_number, re_arranged_sequence) ==
    LET sc == IF scene = NoScene THEN SceneFor(st, page_number) ELSE scene
        zones == st.by_page[page_number]
        ordered ==
            IF \E i \in 1..Len(zones) : st.heap[zones[i]].sequence_number # 0
            THEN SortBy(zones, [i \in 1..Len(zones) |->
                                  <<st.heap[zones[i]].sequence_number, 0>>])
            ELSE zones
        Rank(z) == FirstIndex(ordered, LAMBDA o : o = z)
        heap2 == [z \in 1..Len(st.heap) |->
                    IF /\ z \in SeqToSet(zones)
                       /\ re_arranged_sequence \/ st.heap[z].sequence_number = 0
                    THEN [st.heap[z] EXCEPT !.sequence_number = Rank(z)]
                    ELSE st.heap[z]]
    IN  IF sc = NoScene THEN st
        ELSE [st EXCEPT !.heap = heap2,
                        !.items[sc] = {[z |-> z, rect |-> RectOf(heap2[z])] :
                                         z \in SeqToSet(zones)}]

\* reading_order_key(zone) = (column, -y)
ReadingOrderKey(zone) == <<IF zone.x < ColumnSplit THEN 0 ELSE 1, 0 - zone.y>>

\* insert_new_zone_toall_html(viewer, new_zone): the page is
\* viewer.current_page. The zones equal to new_zone are dropped, the rest
\* and new_zone are sorted in reading order and renumbered in place; a zone
\* with a zone_object goes through update_id_in_string, which raises
\* ValueError for the dict the pipeline stores there, after the zone's own
\* block_id and span_id were assigned and before the page's list is
\* replaced. Without a scene `scene.items()` raises after the list was
\* replaced. ok is FALSE when the exception leaves the method.
InsertNewZoneToAllHtml(st, new_zone) ==
    LET cp == st.cur
        st1 == IF cp \in st.active THEN [st EXCEPT !.items[cp] = {}] ELSE st
        current_page_zone ==
            SelectSeq(st.by_page[cp], LAMBDA z : st.heap[z] # st.heap[new_zone])
        unsorted == current_page_zone \o <<new_zone>>
        all_zones == SortBy(unsorted, [i \in 1..Len(unsorted) |->
                                         ReadingOrderKey(st.heap[unsorted[i]])])
        raising == FirstIndex(all_zones,
                              LAMBDA z : st.heap[z].zone_object # "absent")
        renumbered == IF raising = 0 THEN Len(all_zones) ELSE raising
        Place(z) == FirstIndex(all_zones, LAMBDA o : o = z)
        heap2 == [z \in 1..Len(st.heap) |->
                    IF Place(z) \in 1..renumbered
                    THEN [st.heap[z] EXCEPT !.block_id = <<cp + 1, Place(z)>>,
                                            !.span_id = <<cp + 1, Place(z)>>]
                    ELSE st.heap[z]]
        st2 == [st1 EXCEPT !.heap = heap2, !.by_page[cp] = all_zones]
    IN  IF raising # 0 THEN [st |-> [st1 EXCEPT !.heap = heap2], ok |-> FALSE]
        ELSE IF cp \notin st.active THEN [st |-> st2, ok |-> FALSE]
        ELSE [st |-> AddZonesToSceneFast(st2, cp, cp, FALSE), ok |-> TRUE]

\* get_selected_zones(): the selected items of the active scenes, in some
\* order
AllItems ==
    UNION {{[pg |-> p, z |-> i.z, rect |-> i.rect] : i \in scene_items[p]} :
             p \in active_scenes}
Selections ==
    {sel \in UNION {[1..n -> AllItems] : n \in 0..MaxSelected} :
         \A i, k \in 1..Len(sel) : i # k => sel[i] # sel[k]}
SelectionsUpTo(n) ==
    {sel \in UNION {[1..m -> AllItems] : m \in 0..n} :
         \A i, k \in 1..Len(sel) : i # k => sel[i] # sel[k]}

\* _update_page_ui(page_number, zones): the page's list is replaced by the
\* delivered list, the dicts are appended to viewer.zones_data, and the
\* zones are put on the scene when the page is the current page and has one.
\* The zones are those _convert_layout_to_zones built for the page; an empty
\* list is never delivered (`if zones:` in build_dom_once).
\* One extraction job runs in a behaviour: a page is delivered at most once.
UpdatePageUiStore(page_number, zones) ==
    LET ids == [i \in 1..Len(zones) |-> Len(heap) + i]
        st1 == [StoreState EXCEPT !.heap = @ \o zones,
                                  !.by_page[page_number] = ids,
                                  !.flat = @ \o ids]
    IN  IF page_number = current_page /\ page_number \in active_scenes
        THEN AddZonesToSceneFast(st1, page_number, page_number, FALSE)
        ELSE st1

UpdatePageUi(page_number, boxes) ==
    LET zones == ConvertLayoutToZones(boxes, page_number)
        st2 == UpdatePageUiStore(page_number, zones)
    IN  /\ Len(heap) < MaxZones
        /\ \A z \in 1..Len(heap) :
              ~(heap[z].action_type = "self" /\ heap[z].page = page_number)
        /\ zones # <<>>
        /\ Len(heap) + Len(zones) <= MaxZones
        /\ SetStore(st2, "insert_page_batch", "ok")

\* createpageviewfast(viewer, page_number, image, used_zoom): a new scene
\* replaces the page's scene and the page's zones are put on it
CreatePageViewFast(st, page_number) ==
    AddZonesToSceneFast([st EXCEPT !.active = @ \cup {page_number},
                                   !.items[page_number] = {}],
                        page_number, page_number, FALSE)

\* display_single_page(page_number): the page becomes the current page and
\* its scene is dropped; the view is rebuilt at once from the cached image,
\* or later by fast_render_callback
DisplaySinglePage(page_number, cached) ==
    LET st1 == [StoreState EXCEPT !.cur = page_number,
                                  !.active = @ \ {page_number},
                                  !.items[page_number] = {}]
    IN  SetStore(IF cached THEN CreatePageViewFast(st1, page_number) ELSE st1,
                 "display", "ok")

\* fast_render_callback(page_number, image, used_zoom): the view is built
\* when the rendered page is the current page
FastRenderCallback(page_number) ==
    /\ page_number = current_page
    /\ SetStore(CreatePageViewFast(StoreState, page_number), "render", "ok")

\* manage_memory(): the views and scenes of the other pages are dropped
ManageMemory ==
    /\ active_scenes \ {current_page} # {}
    /\ SetStore([StoreState EXCEPT
                   !.active = @ \cap {current_page},
                   !.items = [p \in Pages |-> IF p = current_page THEN @[p]
                                              ELSE {}]],
                "manage_memory", "ok")

\* the rectangles the user draws and drags items to (scene coordinates)
DrawnRects ==
    {<<ColumnSplit, BoxStep, BoxSize, BoxSize>>}

\* update_zone_data / createzone / mergezones: scene rect -> x, y, width,
\* height with y = pdf_height - screen_y - height
FromScene(rect) ==
    [x |-> rect[1], y |-> PageHeight - rect[2] - rect[4],
     width |-> rect[3], height |-> rect[4]]

MaxSequence(st, page_number) ==
    LET zones == st.by_page[page_number]
        seqs == {st.heap[zones[i]].sequence_number : i \in 1..Len(zones)} \cup {0}
    IN  CHOOSE m \in seqs : \A n \in seqs : n <= m

\* createzone(viewer, rect, scene, page_number), called by the view of the
\* displayed page: the new dict gets sequence number and identifiers
\* max_sequence + 1, its item is added to the scene, and
\* insert_zone_in_order puts it into the page's list; an exception is shown
\* in a message box by the except clause.
CreateZoneCall(rect) ==
    LET page_number == current_page
        g == FromScene(rect)
        max_sequence == MaxSequence(StoreState, page_number)
        new_zone ==
            [block_id |-> <<page_number + 1, max_sequence + 1>>,
             span_id |-> <<page_number + 1, max_sequence + 1>>,
             x |-> g.x, y |-> g.y, width |-> g.width, height |-> g.height,
             page |-> page_number, bbox |-> NoValue,
             sequence_number |-> max_sequence + 1,
             type |-> "paragraph", zone_color |-> NoValue,
             zone_object |-> "absent", action_type |-> "new_zone"]
        new == Len(heap) + 1
        st1 == [StoreState EXCEPT
                  !.heap = Append(@, new_zone),
                  !.items[page_number] = @ \cup {[z |-> new, rect |-> rect]}]
        r == InsertNewZoneToAllHtml(st1, new)
    IN  /\ page_number \in active_scenes
        /\ SetStoreSel(r.st, "insert", IF r.ok THEN "ok" ELSE "error",
                       <<>>, <<new>>, <<>>)

CreateZone(rect) ==
    /\ edits < MaxEdits
    /\ Len(heap) < MaxZones
    /\ CreateZoneCall(rect)

SetMin(S) == CHOOSE m \in S : \A n \in S : m <= n
SetMax(S) == CHOOSE m \in S : \A n \in S : n <= m

\* QRectF.united over the scene rects of the selected items
United(sel) ==
    LET left == SetMin({sel[i].rect[1] : i \in 1..Len(sel)})
        top == SetMin({sel[i].rect[2] : i \in 1..Len(sel)})
        right == SetMax({sel[i].rect[1] + sel[i].rect[3] : i \in 1..Len(sel)})
        bottom == SetMax({sel[i].rect[2] + sel[i].rect[4] : i \in 1..Len(sel)})
    IN  <<left, top, right - left, bottom - top>>

\* mergezones, lines 201-205: for zone in selected_zones: when the page's
\* list has a dict equal to zone.zone_data, the first such dict is removed
\* from the list and the zone's block_id is noted
RECURSIVE RemoveSelected(_, _, _, _)
RemoveSelected(zone_heap, zone_list, sel, i) ==
    IF i > Len(sel) THEN [zone_list |-> zone_list, zonestodelete |-> <<>>]
    ELSE LET k == FirstIndex(zone_list,
                             LAMBDA o : zone_heap[o] = zone_heap[sel[i].z])
             rest == RemoveSelected(zone_heap,
                                    IF k = 0 THEN zone_list
                                    ELSE RemoveAt(zone_list, k),
                                    sel, i + 1)
         IN  [zone_list |-> rest.zone_list,
              zonestodelete |->
                  (IF k = 0 THEN <<>> ELSE <<zone_heap[sel[i].z].block_id>>)
                  \o rest.zonestodelete]

\* pop_value_by_id(zone_data, target_id): the first dict with that block_id
\* leaves the list
PopValueById(zone_heap, zone_data, target_id) ==
    LET k == FirstIndex(zone_data, LAMBDA o : zone_heap[o].block_id = target_id)
    IN  IF k = 0 THEN zone_data ELSE RemoveAt(zone_data, k)

RECURSIVE PopAll(_, _, _, _)
PopAll(zone_heap, zone_data, ids, i) ==
    IF i > Len(ids) THEN zone_data
    ELSE PopAll(zone_heap, PopValueById(zone_heap, zone_data, ids[i]), ids, i + 1)

\* mergezones from line 167 on: the merged rectangle, the new dict, the
\* removal of the selected zones from the page's list and from the scene,
\* new_zone["block_id"] = zonestodelete[0] (IndexError when no selected zone
\* was in the list), pop_value_by_id for every noted id, insert_zone_in_order
\* and, when that returned, the rebuilt scene with the sequence numbers
\* reassigned. ok is FALSE when the except clause was entered.
MergeBody(st, sel) ==
    LET page_number == st.heap[sel[1].z].page
        g == FromScene(United(sel))
        new_zone ==
            [block_id |-> NoValue, span_id |-> NoValue,
             x |-> g.x, y |-> g.y, width |-> g.width, height |-> g.height,
             page |-> page_number, bbox |-> NoValue, sequence_number |-> 0,
             type |-> st.heap[sel[1].z].type, zone_color |-> NoValue,
             zone_object |-> "absent", action_type |-> "new_zone"]
        new == Len(st.heap) + 1
        scene == sel[1].pg
        removed == RemoveSelected(st.heap, st.by_page[page_number], sel, 1)
        st1 == [st EXCEPT
                  !.heap = Append(@, new_zone),
                  !.by_page[page_number] = removed.zone_list,
                  !.items[scene] =
                      @ \ {[z |-> sel[i].z, rect |-> sel[i].rect] :
                             i \in {k \in 1..Len(sel) : sel[k].pg = scene}}]
        zonestodelete == removed.zonestodelete
        st2 == [st1 EXCEPT
                  !.heap[new].block_id = zonestodelete[1],
                  !.by_page[page_number] =
                      PopAll(st.heap, removed.zone_list, zonestodelete, 1)]
        r == InsertNewZoneToAllHtml(st2, new)
    IN  IF zonestodelete = <<>> THEN [st |-> st1, ok |-> FALSE]
        ELSE IF ~r.ok THEN r
        ELSE [st |-> AddZonesToSceneFast(r.st, scene, page_number, TRUE),
              ok |-> TRUE]

\* mergezones(viewer, selected_zones): fewer than 2 zones, or zones whose
\* page differs from the first zone's, end in a warning and a return
MergeRejectedFew(sel) == Len(sel) < 2

MergeRejected(sel) ==
    \/ Len(sel) < 2
    \/ \E i \in 2..Len(sel) : heap[sel[i].z].page # heap[sel[1].z].page

SelectedPages(sel) == [i \in 1..Len(sel) |-> heap[sel[i].z].page]

SelectedZones(sel) == [i \in 1..Len(sel) |-> sel[i].z]

MergeZonesCall(sel) ==
    IF MergeRejected(sel)
    THEN SetStoreSel(StoreState, "merge", "rejected", SelectedPages(sel),
                     SelectedZones(sel), <<>>)
    ELSE LET r == MergeBody(StoreState, sel)
         IN  SetStoreSel(r.st, "merge", IF r.ok THEN "ok" ELSE "error",
                         SelectedPages(sel), SelectedZones(sel), <<>>)

MergeZones(sel) ==
    /\ edits < MaxEdits
    /\ MergeRejected(sel) \/ Len(heap) < MaxZones
    /\ MergeZonesCall(sel)

\* replace_sequence_number(viewer, selected_zones): not exactly 2 zones, or
\* zones of different pages, end in a warning; else every dict of the page's
\* list with the first zone's block_id gets the second zone's sequence
\* number and the other way round, and the scene is rebuilt.
ReplaceSequenceNumberCall(sel) ==
    /\ IF Len(sel) # 2 \/ heap[sel[2].z].page # heap[sel[1].z].page
       THEN SetStoreSel(StoreState, "swap_sequence", "rejected", <<>>,
                        SelectedZones(sel), <<>>)
       ELSE LET page_number == heap[sel[1].z].page
                zones == zones_data_by_page[page_number]
                first == heap[sel[1].z]
                second == heap[sel[2].z]
                heap2 == [z \in 1..Len(heap) |->
                            IF z \notin SeqToSet(zones) THEN heap[z]
                            ELSE IF heap[z].block_id = first.block_id
                            THEN [heap[z] EXCEPT !.sequence_number =
                                                     second.sequence_number]
                            ELSE IF heap[z].block_id = second.block_id
                            THEN [heap[z] EXCEPT !.sequence_number =
                                                     first.sequence_number]
                            ELSE heap[z]]
                scene == SceneFor(StoreState, page_number)
                st1 == [StoreState EXCEPT !.heap = heap2]
            IN  SetStoreSel(AddZonesToSceneFast(st1, scene, page_number,
                                                FALSE),
                            "swap_sequence", "ok", <<>>,
                            SelectedZones(sel), <<>>)

ReplaceSequenceNumber(sel) ==
    /\ edits < MaxEdits
    /\ ReplaceSequenceNumberCall(sel)


\* ResizableZone.mouseReleaseEvent, the loop over get_selected_zones(): an
\* item without block_id is skipped; new_bbox = (x, y, x + width, y + height)
\* from update_zone_data; when it differs from the item's bbox the first dict
\* of the current page's list with the item's block_id gets bbox, x, y,
\* width and height.
RECURSIVE ReleaseSelected(_, _, _)
ReleaseSelected(st, sel, i) ==
    IF i > Len(sel) THEN st
    ELSE LET zone == st.heap[sel[i].z]
             g == FromScene(sel[i].rect)
             new_bbox == <<g.x, g.y, g.x + g.width, g.y + g.height>>
             zones_data_cur == st.by_page[st.cur]
             k == FirstIndex(zones_data_cur,
                             LAMBDA o : st.heap[o].block_id = zone.block_id)
             st1 == IF zone.block_id = NoValue \/ new_bbox = zone.bbox \/ k = 0
                    THEN st
                    ELSE [st EXCEPT !.heap[zones_data_cur[k]] =
                            [@ EXCEPT !.bbox = new_bbox, !.x = g.x, !.y = g.y,
                                      !.width = g.width, !.height = g.height]]
         IN  ReleaseSelected(st1, sel, i + 1)

\* the user drags or resizes the selected item sel[1] to rect and releases
\* the mouse button
MouseReleaseCall(sel, rect) ==
    LET moved == [sel EXCEPT ![1].rect = rect]
        st0 == [StoreState EXCEPT
                  !.items[sel[1].pg] =
                      (@ \ {[z |-> sel[1].z, rect |-> sel[1].rect]})
                      \cup {[z |-> sel[1].z, rect |-> rect]}]
    IN  /\ sel # <<>>
        /\ SetStoreSel(ReleaseSelected(st0, moved, 1), "update_geometry",
                       "ok", <<>>, SelectedZones(sel),
                       IF rect = sel[1].rect THEN "unmoved" ELSE "moved")

MouseRelease(sel, rect) ==
    /\ edits < MaxEdits
    /\ MouseReleaseCall(sel, rect)

\* change_selected_zones_type / ShortcutManager.change_type: for every
\* selected item ZoneType.change_zone_type(new_type): the item's dict gets
\* the colour, and the first dict of viewer.zones_data with the item's
\* block_id gets type and colour
RECURSIVE RetypeSelected(_, _, _, _)
RetypeSelected(st, sel, new_type, i) ==
    IF i > Len(sel) THEN st
    ELSE LET z == sel[i].z
             heap1 == [st.heap EXCEPT ![z].zone_color = ColorOf(new_type)]
             k == FirstIndex(st.flat,
                             LAMBDA o : heap1[o].block_id = heap1[z].block_id)
             heap2 == IF k = 0 THEN heap1
                      ELSE [heap1 EXCEPT ![st.flat[k]].type = new_type,
                                         ![st.flat[k]].zone_color =
                                             ColorOf(new_type)]
         IN  RetypeSelected([st EXCEPT !.heap = heap2], sel, new_type, i + 1)

ChangeZoneTypeCall(sel, new_type) ==
    /\ sel # <<>>
    /\ SetStoreSel(RetypeSelected(StoreState, sel, new_type, 1), "retype",
                   "ok", <<>>, SelectedZones(sel), new_type)

ChangeZoneType(sel, new_type) ==
    /\ edits < MaxEdits
    /\ ChangeZoneTypeCall(sel, new_type)

\* ResizableZone.delete_zone, the loop over the scene's selected items: the
\* item leaves the scene; when the current page's list has a dict equal to
\* the item's, pop_value_by_id removes the first dict with its block_id
RECURSIVE DeleteSelected(_, _, _)
DeleteSelected(st, sel, i) ==
    IF i > Len(sel) THEN st
    ELSE LET zone == st.heap[sel[i].z]
             current_page_zone == st.by_page[st.cur]
             present == FirstIndex(current_page_zone,
                                   LAMBDA o : st.heap[o] = zone) # 0
             st1 == [st EXCEPT !.items[sel[i].pg] =
                                   @ \ {[z |-> sel[i].z, rect |-> sel[i].rect]}]
             st2 == IF present
                    THEN [st1 EXCEPT !.by_page[st.cur] =
                            PopValueById(st.heap, current_page_zone,
                                         zone.block_id)]
                    ELSE st1
         IN  DeleteSelected(st2, sel, i + 1)

\* delete_zone(): sel is the selection of the item's scene; more than one
\* zone asks for confirmation; after the loop the current page's scene is
\* rebuilt with the sequence numbers reassigned
DeleteZoneCall(sel, confirmed) ==
    /\ sel # <<>>
    /\ \A i \in 1..Len(sel) : sel[i].pg = sel[1].pg
    /\ IF Len(sel) > 1 /\ ~confirmed
       THEN SetStoreSel(StoreState, "delete", "rejected", <<>>,
                        SelectedZones(sel), <<>>)
       ELSE SetStoreSel(AddZonesToSceneFast(DeleteSelected(StoreState, sel, 1),
                                            NoScene, current_page, TRUE),
                        "delete", "ok", <<>>, SelectedZones(sel), <<>>)

DeleteZone(sel, confirmed) ==
    /\ edits < MaxEdits
    /\ DeleteZoneCall(sel, confirmed)

\* The Zone Store alone: the pipeline delivers pages, the user turns pages
\* and edits zones. The job manager stays as constructed.
InitZ == Init /\ max_workers = 1

NextZ ==
    \/ \E p \in Pages, boxes \in BoxLists : UpdatePageUi(p, boxes)
    \/ \E p \in Pages, cached \in BOOLEAN : DisplaySinglePage(p, cached)
    \/ \E p \in Pages : FastRenderCallback(p)
    \/ ManageMemory
    \/ /\ edits < MaxEdits
       /\ \E rect \in DrawnRects : CreateZone(rect)
    \/ /\ edits < MaxEdits
       /\ \E sel \in Selections : MergeZones(sel)
    \/ /\ edits < MaxEdits
       /\ \E sel \in Selections : ReplaceSequenceNumber(sel)
    \/ /\ edits < MaxEdits
       /\ \E sel \in Selections \ {<<>>} :
             \E rect \in DrawnRects \cup {sel[1].rect} : MouseRelease(sel, rect)
    \/ /\ edits < MaxEdits
       /\ \E sel \in Selections, new_type \in Types :
             ChangeZoneType(sel, new_type)
    \/ /\ edits < MaxEdits
       /\ \E sel \in Selections, confirmed \in BOOLEAN :
             DeleteZone(sel, confirmed)

SpecZ == InitZ /\ [][NextZ]_vars


\* Merging zones the user has drawn: page 0 is displayed, the user draws
\* MaxMergeZones zones at three heights and then merges up to MaxMerges
\* times, any selection of the items of the page.
MergeRects ==
    {<<0, top, BoxSize, BoxSize>> : top \in {0, BoxStep, 2 * BoxStep}}

NextM ==
    \/ \E cached \in BOOLEAN : DisplaySinglePage(0, cached)
    \/ FastRenderCallback(0)
    \/ /\ edits < MaxMergeZones
       /\ \E rect \in MergeRects : CreateZoneCall(rect)
    \/ /\ edits >= MaxMergeZones
       /\ edits < MaxMergeZones + MaxMerges
       /\ \E sel \in SelectionsUpTo(MaxMergeZones) : MergeZonesCall(sel)

SpecM == InitZ /\ [][NextM]_vars

\* An editing session on one page: page 0 is displayed, the pipeline
\* delivers its zones at most once, and the user draws zones in both
\* columns, retypes, swaps and deletes zones, MaxSessionEdits edits in all.
SessionRects ==
    {<<0, 0, BoxSize, BoxSize>>, <<0, BoxStep, BoxSize, BoxSize>>,
     <<ColumnSplit, BoxStep, BoxSize, BoxSize>>}

NextE ==
    \/ \E boxes \in BoxLists : UpdatePageUi(0, boxes)
    \/ \E cached \in BOOLEAN : DisplaySinglePage(0, cached)
    \/ FastRenderCallback(0)
    \/ /\ edits < MaxSessionEdits
       /\ \E rect \in SessionRects : CreateZoneCall(rect)
    \/ /\ edits < MaxSessionEdits
       /\ \E sel \in Selections, new_type \in Types :
             ChangeZoneTypeCall(sel, new_type)
    \/ /\ edits < MaxSessionEdits
       /\ \E sel \in Selections : ReplaceSequenceNumberCall(sel)
    \/ /\ edits < MaxSessionEdits
       /\ \E sel \in Selections, confirmed \in BOOLEAN :
             DeleteZoneCall(sel, confirmed)

SpecE == InitZ /\ [][NextE]_vars

\* ------------------------------------------ the workers and the detector
\* max_concurrent_jobs = MaxWorkers: every worker thread starts
\* _worker_loop with `predictor = _LayoutPredictorSingleton.get()`, and the
\* detector call of build_dom_once takes time: it is entered in one step and
\* returns (or raises) in a later one.

\* get(): `if cls._instance is None:` outside the lock
PredictorGetCheck(w) ==
    /\ wk[w].pc = "get_pred"
    /\ SetWorker(w, [wk[w] EXCEPT !.pc = IF predictor_instance = 0
                                          THEN "pred_lock" ELSE "pred_return"])
    /\ UNCHANGED <<mgr_vars, max_workers, total_pages, batch_size,
                   page_offset, pred_vars, store_vars, cl, hist_vars,
                   ncancels>>

\* get(): `with cls._lock:`
PredictorGetLock(w) ==
    /\ wk[w].pc = "pred_lock"
    /\ predictor_lock = 0
    /\ predictor_lock' = w
    /\ SetWorker(w, [wk[w] EXCEPT !.pc = "pred_recheck"])
    /\ UNCHANGED <<mgr_vars, max_workers, total_pages, batch_size,
                   page_offset, predictor_instance, constructed, predictor,
                   store_vars, cl, hist_vars, ncancels>>

\* get() without the second test: the holder of the lock constructs
PredictorGetConstructUnchecked(w) ==
    /\ wk[w].pc = "pred_recheck"
    /\ constructed' = constructed + 1
    /\ predictor_instance' = constructed + 1
    /\ predictor_lock' = 0
    /\ SetWorker(w, [wk[w] EXCEPT !.pc = "pred_return"])
    /\ UNCHANGED <<mgr_vars, max_workers, total_pages, batch_size,
                   page_offset, predictor, store_vars, cl, hist_vars,
                   ncancels>>

\* get(), under the lock: `if cls._instance is None: cls._instance =
\* LayoutPredictor()`, and the lock is released
PredictorGetConstruct(w) ==
    /\ wk[w].pc = "pred_recheck"
    /\ IF predictor_instance = 0
       THEN /\ constructed' = constructed + 1
            /\ predictor_instance' = constructed + 1
       ELSE UNCHANGED <<constructed, predictor_instance>>
    /\ predictor_lock' = 0
    /\ SetWorker(w, [wk[w] EXCEPT !.pc = "pred_return"])
    /\ UNCHANGED <<mgr_vars, max_workers, total_pages, batch_size,
                   page_offset, predictor, store_vars, cl, hist_vars,
                   ncancels>>

\* get(): `return cls._instance`, assigned to the worker's `predictor`
PredictorGetReturn(w) ==
    /\ wk[w].pc = "pred_return"
    /\ predictor' = [predictor EXCEPT ![w] = predictor_instance]
    /\ SetWorker(w, [wk[w] EXCEPT !.pc = "loop"])
    /\ UNCHANGED <<mgr_vars, max_workers, total_pages, batch_size,
                   page_offset, predictor_instance, predictor_lock,
                   constructed, store_vars, cl, hist_vars, ncancels>>

\* layout_results = self.layout_predictor(images): the call is entered
WorkerDetectEnter(w) ==
    /\ wk[w].pc = "detect"
    /\ SetWorker(w, [wk[w] EXCEPT !.pc = "detecting"])
    /\ UNCHANGED <<mgr_vars, cfg_vars, store_vars, cl, hist_vars, ncancels>>

\* the detector call returns its results or raises
WorkerDetectReturn(w) ==
    /\ wk[w].pc = "detecting"
    /\ \E raises \in BOOLEAN :
         IF raises
         THEN SetWorker(w, Raise([wk[w] EXCEPT !.det = @ + 1], "detector"))
         ELSE SetWorker(w, [wk[w] EXCEPT !.pc = "conv", !.idx = 0,
                                        !.det = @ + 1])
    /\ UNCHANGED <<mgr_vars, cfg_vars, store_vars, cl, hist_vars, ncancels>>

WorkerStepW(w) ==
    \/ PredictorGetCheck(w)
    \/ PredictorGetLock(w)
    \/ PredictorGetConstruct(w)
    \/ PredictorGetReturn(w)
    \/ WorkerLoop(w)
    \/ WorkerGet(w)
    \/ WorkerSetCurrent(w)
    \/ WorkerCheck(w)
    \/ WorkerBatch(w)
    \/ WorkerRaster(w)
    \/ WorkerDetectEnter(w)
    \/ WorkerDetectReturn(w)
    \/ WorkerConvert(w)
    \/ WorkerFinish(w)
    \/ WorkerClear(w)

SubmitWorkers(c) ==
    /\ id_counter <= MaxJobs
    /\ SubmitBegin(c, "queue")

\* ZoneExtractionManager(max_workers = MaxWorkers) has started its threads;
\* no detector exists yet
InitW ==
    /\ jobs = <<>>
    /\ current_job = NoJob
    /\ lock = 0
    /\ shutdown_flag = FALSE
    /\ id_counter = 1
    /\ cancel_event = [j \in JobIds |-> FALSE]
    /\ max_workers = MaxWorkers
    /\ wk = [w \in Workers |-> [IdleWorker EXCEPT !.pc = "get_pred"]]
    /\ cl = [c \in Callers |-> IdleCaller]
    /\ life = [j \in JobIds |-> "none"]
    /\ fin = [j \in JobIds |-> 0]
    /\ res = [j \in JobIds |-> "-"]
    /\ enq_order = <<>>
    /\ cb_raised = FALSE
    /\ ncancels = 0
    /\ predictor_instance = 0
    /\ predictor_lock = 0
    /\ constructed = 0
    /\ predictor = [w \in Workers |-> 0]
    /\ InitStore
    /\ total_pages = MaxPages
    /\ batch_size = MaxBatch
    /\ page_offset = 0

NextW ==
    \/ \E c \in Callers : SubmitWorkers(c)
    \/ \E c \in Callers : SubmitLock(c)
    \/ \E w \in Workers : WorkerStepW(w)

SpecW == InitW /\ [][NextW]_vars

\* ------------------------------------------------- documents and delivery
\* The viewer runs the extractor with the default configuration: policy
\* "queue" and one worker, so the jobs run one after the other in the order
\* of their submission. A job covers the MaxStorePages pages of its
\* document. The worker thread calls handle_page_zone for every page, which
\* queues a call of _update_page_ui for the UI thread; the UI thread runs
\* the queued calls, and the user's handlers, one at a time.
DocBoxLists ==
    {boxes \in BoxLists : /\ Len(boxes) = 1
                          /\ boxes[1].usable
                          /\ boxes[1].position = 0}

StoreVarsOnly ==
    <<heap, zones_data_by_page, zones_data, scene_items, active_scenes,
      current_page>>

\* cleanupprevious_document(viewer): scenes, views, cache and both zone
\* collections are emptied; no extraction job is cancelled and no queued
\* call is withdrawn
CleanupPreviousDocument(st) ==
    [st EXCEPT !.by_page = [p \in Pages |-> <<>>],
               !.flat = <<>>,
               !.active = {},
               !.items = [p \in Pages |-> {}]]

\* open_pdf(): cleanup, the new document is opened, page 0 is displayed
\* (its image is not cached) and prepare_batch_extraction submits the job
OpenPdf ==
    /\ pdf_doc < MaxDocs
    /\ StoreUpdate([CleanupPreviousDocument(StoreState) EXCEPT !.cur = 0],
                   "open", "ok", <<>>, <<>>, <<>>)
    /\ pdf_doc' = pdf_doc + 1
    /\ extraction' = Append(extraction, [doc |-> pdf_doc + 1, next |-> 0])
    /\ UNCHANGED ui_events

\* the worker calling _update_page_ui itself instead of queueing it
HandlePageZoneDirect(boxes) ==
    /\ extraction # <<>>
    /\ Head(extraction).next < MaxStorePages
    /\ LET page_number == Head(extraction).next
           zones == ConvertLayoutToZones(boxes, page_number)
       IN  /\ StoreUpdate(IF zones # <<>>
                          THEN UpdatePageUiStore(page_number, zones)
                          ELSE StoreState,
                          "insert_page_batch", "ok", <<page_number>>, <<>>,
                          Head(extraction).doc)
           /\ extraction' = [extraction EXCEPT ![1].next = @ + 1]
           /\ UNCHANGED <<pdf_doc, ui_events>>

\* build_dom_once's loop body for one page, on the worker thread:
\* _convert_layout_to_zones, then _flush_page_zones -> handle_page_zone,
\* which queues _update_page_ui(page_number, zones) with
\* QMetaObject.invokeMethod(..., Qt.QueuedConnection, ...)
HandlePageZone(boxes) ==
    /\ extraction # <<>>
    /\ Head(extraction).next < MaxStorePages
    /\ LET page_number == Head(extraction).next
           zones == ConvertLayoutToZones(boxes, page_number)
       IN  /\ ui_events' =
                 IF zones # <<>>
                 THEN Append(ui_events, [page_number |-> page_number,
                                         zones |-> zones,
                                         doc |-> Head(extraction).doc])
                 ELSE ui_events
           /\ extraction' = [extraction EXCEPT ![1].next = @ + 1]
           /\ UNCHANGED <<StoreVarsOnly, last_op, edits, retired, pdf_doc,
                          pipeline_vars>>

\* the job has processed its pages: _finish, and the worker takes the next
JobFinish ==
    /\ extraction # <<>>
    /\ Head(extraction).next = MaxStorePages
    /\ extraction' = Tail(extraction)
    /\ UNCHANGED <<StoreVarsOnly, last_op, edits, retired, pdf_doc,
                   ui_events, pipeline_vars>>

\* the UI thread's event loop runs the oldest queued _update_page_ui call
UpdatePageUiQueued ==
    /\ ui_events # <<>>
    /\ LET e == Head(ui_events)
       IN  StoreUpdate(UpdatePageUiStore(e.page_number, e.zones),
                       "insert_page_batch", "ok", <<e.page_number>>, <<>>,
                       e.doc)
    /\ ui_events' = Tail(ui_events)
    /\ UNCHANGED <<pdf_doc, extraction>>

NextD ==
    \/ OpenPdf
    \/ \E boxes \in DocBoxLists : HandlePageZone(boxes)
    \/ JobFinish
    \/ UpdatePageUiQueued
    \/ /\ pdf_doc # 0
       /\ FastRenderCallback(0)
    \/ /\ pdf_doc # 0
       /\ edits < MaxDocEdits
       /\ \E rect \in DrawnRects : CreateZoneCall(rect)

SpecD == InitZ /\ [][NextD]_vars

\* ----------------------------------------------------- saving and loading
\* save_zones_to_json: the dicts of the page lists, page after page, are
\* written as one JSON array (every dict the pipeline, createzone and
\* mergezones build has "page", so none gets its list's key); json.dump
\* writes the values of the dicts as they are
RECURSIVE AllZonesFrom(_, _, _)
AllZonesFrom(zone_heap, by_page, page) ==
    IF page >= MaxStorePages THEN <<>>
    ELSE [i \in 1..Len(by_page[page]) |-> zone_heap[by_page[page][i]]]
         \o AllZonesFrom(zone_heap, by_page, page + 1)

SaveZonesToJson(zone_heap, by_page) == AllZonesFrom(zone_heap, by_page, 0)

\* open_pdf_with_zones_if_available, the saved file exists: for zone in
\* loaded_zones: zones_data_by_page.setdefault(zone.get("page", 1),
\* []).append(zone); a key no zone names has no list
LoadedZonesByPage(loaded_zones) ==
    [pg \in Pages |-> SelectSeq(loaded_zones, LAMBDA zone : zone.page = pg)]

\* the dicts of a page's list
PageZones(zone_heap, by_page, pg) ==
    [i \in 1..Len(by_page[pg]) |-> zone_heap[by_page[pg][i]]]

\* ------------------------------------------------------------ the claims
Position(j) == CHOOSE i \in 1..Len(enq_order) : enq_order[i] = j
Enqueued(j) == j \in SeqToSet(enq_order)
InRun(w) == wk[w].pc \in {"batch", "raster", "detect", "conv", "fin"}
Quiescent ==
    /\ \A c \in Callers : cl[c].pc = "idle"
    /\ \A w \in Workers : wk[w].pc \in {"loop", "get", "exit", "off"}
    /\ Pending(jobs) = {}

\* C1: whatever submit, cancel, cancel_all_pending, shutdown and the workers
\* do, and in whatever order, no job's on_finish is invoked more than once.
C1_FinishAtMostOnce == \A j \in JobIds : fin[j] <= 1

\* a job whose cancel_event was set while it ran and whose on_finish was
\* invoked, once, with the extractor
C1_Witness ==
    \E j \in JobIds : fin[j] = 1 /\ cancel_event[j] /\ res[j] = "extractor"

\* C2 (as claimed): a job discarded while pending, by the flush of a replace
\* or drop_old submit or by cancel(job_id), has had its on_finish invoked
\* exactly once, with null, at the latest when the manager has come to rest.
C2_DiscardedJobIsNotified ==
    Quiescent =>
        \A j \in JobIds : life[j] = "discarded" => fin[j] = 1 /\ res[j] = "null"

\* C3: under the queue policy with one worker (no cancel, no shutdown) every
\* enqueued job eventually has its on_finish invoked, and never more than
\* once, whether its run succeeds or raises and whether or not an earlier
\* on_finish raised.
C3_QueuedJobFinishesOnce ==
    /\ [](\A j \in JobIds : fin[j] <= 1)
    /\ \A j \in JobIds : (life[j] = "queued") ~> (fin[j] = 1)

\* two jobs finished once each, the earlier one failed, the later one ran to
\* the end, and an on_finish callback has raised
C3_Witness ==
    \E j, k \in JobIds :
        /\ j < k
        /\ fin[j] = 1 /\ res[j] = "null"
        /\ fin[k] = 1 /\ res[k] = "extractor"
        /\ cb_raised

C5_ReplaceFlushesAllPending ==
    [][\A c \in Callers :
         (cl[c].pc = "s_put" /\ cl[c].op = "replace" /\ cl'[c].pc = "idle")
         => /\ cl[c].snap_cur # NoJob => cancel_event'[cl[c].snap_cur]
            /\ \A j \in cl[c].snap :
                 cancel_event'[j] /\ j \notin Pending(jobs')
            /\ Pending(jobs') = {cl[c].job}]_vars

\* C6 (as claimed): when a drop_old submit returns, every job that was
\* pending when it took the lock has been discarded and does not run, and the
\* new job alone is pending; the flag of the current job is left alone.
C6_DropOldDiscardsAllPending ==
    [][\A c \in Callers :
         (cl[c].pc = "s_put" /\ cl[c].op = "drop_old" /\ cl'[c].pc = "idle")
         => /\ \A j \in cl[c].snap :
                 /\ j \notin Pending(jobs')
                 /\ life'[j] \notin {"taken", "running", "finished"}
            /\ Pending(jobs') = {cl[c].job}]_vars

\* C7 (as claimed): cancel(job_id) of a job that was pending, running, or
\* taken from the queue by a worker but not yet started, when cancel took the
\* lock, returns True (it does not return False and does not raise).
C7_CancelFindsLiveJob ==
    [][\A c \in Callers :
         (/\ cl[c].op = "cancel"
          /\ cl[c].at_call \in {"queued", "taken", "running"}
          /\ cl'[c].pc = "idle")
         => cl[c].pc = "c_empty" /\ cl[c].canceled]_vars

\* C8 (as claimed): once a cancellation check of a run has seen the flag set,
\* that run calls the detector no more, invokes on_page no more and does not
\* raise.
C8_NoWorkAfterObservedCancel ==
    [][\A w \in Workers :
         (wk[w].observed /\ wk'[w].observed)
         => /\ wk'[w].det = wk[w].det
            /\ wk'[w].pages = wk[w].pages
            /\ wk'[w].ext = wk[w].ext]_vars

\* C9 (as claimed): a cancelled job's on_finish receives a value that is
\* neither the null of a failed job nor the result of a successful one; this
\* covers the job skipped because it was cancelled before it started and the
\* job whose run observed the cancellation.
C9_CancelledIsDistinct ==
    [][\A w \in Workers :
         (/\ wk[w].job # NoJob
          /\ fin'[wk[w].job] > fin[wk[w].job]
          /\ wk[w].pc = "chk" \/ wk[w].observed)
         => res'[wk[w].job] \notin {"null", "extractor"}]_vars

\* C10: no job is in the hands of two workers, a job that has run is never
\* taken by a worker again, and with one worker (the default) at most one job
\* is between the start of its run and its on_finish.
C10_OneWorkerPerJob ==
    /\ [](\A v, w \in Workers :
            (v # w /\ wk[v].job # NoJob) => wk[v].job # wk[w].job)
    /\ [](max_workers = 1 =>
            /\ Cardinality({j \in JobIds : life[j] = "running"}) <= 1
            /\ Cardinality({w \in Workers : InRun(w)}) <= 1)
    /\ [][\A j \in JobIds :
            life[j] \in {"running", "finished"} => life'[j] # "taken"]_vars

\* two workers are inside the pipeline runs of two different jobs
C10_Witness ==
    \E v, w \in Workers :
        /\ v # w
        /\ InRun(v) /\ InRun(w)
        /\ wk[v].job # wk[w].job
        /\ life[wk[v].job] = "running" /\ life[wk[w].job] = "running"

\* -------------------------------------------------- the pipeline's claims
CeilDiv(n, b) == (n + b - 1) \div b
AllPages == [i \in 1..total_pages |-> PageNum(i - 1)]

\* C11 (as claimed): a run without cancellation or error over a document of
\* N pages with micro-batch size b has invoked on_page exactly once for every
\* page, in page order, N calls in all, also for a page whose detection gave
\* no zone, and has called the detector ceil(N/b) times, each call with at
\* least one and at most b page images.
C11_OnPageForEveryPage ==
    \A w \in Workers :
        /\ wk[w].pc = "detect" => wk[w].nimg \in 1..BatchStep
        /\ (wk[w].pc = "fin" /\ wk[w].ext /\ wk[w].exc = "none")
           => /\ wk[w].log = AllPages
              /\ wk[w].det = CeilDiv(total_pages, BatchStep)

\* C12: within one job the page numbers on_page is invoked with are strictly
\* increasing, so none is delivered twice, each is the page index plus
\* page_offset of the page being converted, and each is a page of the
\* document.
C12_PageNumbersIncrease ==
    /\ [](\A w \in Workers :
            \A i, k \in 1..Len(wk[w].log) :
                /\ i < k => wk[w].log[i] < wk[w].log[k]
                /\ wk[w].log[i] - page_offset \in 0..(total_pages - 1))
    /\ [][\A w \in Workers :
            Len(wk'[w].log) = Len(wk[w].log) + 1
            => wk'[w].log[Len(wk'[w].log)] =
                   wk[w].start + wk[w].idx + page_offset]_vars

\* a job submitted with a page offset has had on_page invoked for its first
\* and for its third page, the second page having given no zone
C12_Witness ==
    \E w \in Workers :
        /\ page_offset > 0
        /\ wk[w].log = <<page_offset, page_offset + 2>>

\* C13 (as claimed): a detector or text-extraction error on a page does not
\* abort the job: when at least one page of the run was delivered, on_finish
\* receives the extractor, not null.
C13_PageErrorIsSkipped ==
    \A w \in Workers :
        (/\ wk[w].pc = "fin"
         /\ wk[w].exc \in {"detector", "convert"}
         /\ wk[w].pages >= 1)
        => wk[w].ext

\* C14: a job whose document cannot be opened has on_finish invoked with
\* null, without any on_page or detector call, and the worker goes on: a job
\* pending behind it is finished too.
C14_OpenFailureFailsJobOnly ==
    /\ [](\A w \in Workers :
            wk[w].exc = "open"
            => /\ wk[w].pc \in {"fin", "clear"}
               /\ ~wk[w].ext /\ wk[w].pages = 0 /\ wk[w].det = 0)
    /\ [][\A w \in Workers :
            (wk[w].pc = "fin" /\ wk[w].exc = "open" /\ wk'[w].pc = "clear")
            => /\ fin'[wk[w].job] = 1
               /\ res'[wk[w].job] = "null"]_vars
    /\ \A k \in JobIds :
          ((\E w \in Workers : wk[w].exc = "open") /\ life[k] = "queued")
          ~> (fin[k] = 1)

\* the worker has invoked on_finish with null for a job whose document
\* could not be opened, and another job is pending behind it
C14_Witness ==
    \E w \in Workers, k \in JobIds :
        /\ wk[w].pc = "clear" /\ wk[w].exc = "open"
        /\ fin[wk[w].job] = 1 /\ res[wk[w].job] = "null"
        /\ life[k] = "queued"

\* C15: on every page, after any sequence of Zone Store operations,
\* successful or failed, the block_id values of the zones in the page's list
\* are pairwise distinct.
C15_BlockIdsDistinct ==
    \A p \in Pages :
        \A i, k \in 1..Len(zones_data_by_page[p]) :
            i # k => heap[zones_data_by_page[p][i]].block_id
                     # heap[zones_data_by_page[p][k]].block_id

\* the sequence numbers of the zones of a list are exactly 1..N
SequenceDense(zone_heap, zone_list) ==
    {zone_heap[zone_list[i]].sequence_number : i \in 1..Len(zone_list)}
    = 1..Len(zone_list)

\* C16: after a page batch was inserted for a page, and after a successful
\* interactive insert on a page, the sequence numbers of the page's zones
\* are exactly 1..N, N the number of zones of the page.
C16_SequenceNumbersDense ==
    [][/\ last_op'.op = "insert_page_batch"
          => \A p \in Pages :
                zones_data_by_page'[p] # zones_data_by_page[p]
                => SequenceDense(heap', zones_data_by_page'[p])
       /\ (last_op'.op = "insert" /\ last_op'.outcome = "ok")
          => SequenceDense(heap', zones_data_by_page'[current_page])]_vars

\* C17: the zones the pipeline emits for a page carry block_id pz{page+1}-{k}
\* and span_id z{page+1}-{k} with k running 1..N without gaps, N the number
\* of zones emitted, also when boxes without a usable rectangle were dropped.
C17_PipelineIdsDense ==
    [][last_op'.op = "insert_page_batch"
       => \A p \in Pages :
             zones_data_by_page'[p] # zones_data_by_page[p]
             => \A i \in 1..Len(zones_data_by_page'[p]) :
                   /\ heap'[zones_data_by_page'[p][i]].block_id = <<p + 1, i>>
                   /\ heap'[zones_data_by_page'[p][i]].span_id = <<p + 1, i>>]_vars

\* C18: every zone of the Zone Store has bbox = (x, y, x + width, y + height)
\* in every reachable state.
C18_BboxMatchesGeometry ==
    \A p \in Pages :
        \A i \in 1..Len(zones_data_by_page[p]) :
            LET zone == heap[zones_data_by_page[p][i]]
            IN  zone.bbox = <<zone.x, zone.y, zone.x + zone.width,
                              zone.y + zone.height>>

\* C19: an interactive insert, merge, swap_sequence or delete that ends in
\* an error or a rejection leaves every page's zone list and every field of
\* every zone as they were before the call.
C19_FailedOperationChangesNothing ==
    [][(/\ last_op'.op \in {"insert", "merge", "swap_sequence", "delete"}
        /\ last_op'.outcome \in {"error", "rejected"})
       => /\ zones_data_by_page' = zones_data_by_page
          /\ \A z \in 1..Len(heap) : heap'[z] = heap[z]]_vars

\* C20: a merge called with fewer than 2 zones, or with zones whose page
\* fields differ, is rejected before any mutation: no page's zone list, no
\* zone field and no scene item changes.
C20_MergeRejectedBeforeMutation ==
    [][(/\ last_op'.op = "merge"
        /\ \/ Len(last_op'.pages) < 2
           \/ \E i \in 1..Len(last_op'.pages) :
                 last_op'.pages[i] # last_op'.pages[1])
       => /\ last_op'.outcome = "rejected"
          /\ heap' = heap
          /\ zones_data_by_page' = zones_data_by_page
          /\ zones_data' = zones_data
          /\ scene_items' = scene_items]_vars

\* a merge of two selected zones whose page fields differ was rejected
C20_Witness ==
    /\ last_op.op = "merge" /\ last_op.outcome = "rejected"
    /\ Len(last_op.pages) = 2
    /\ last_op.pages[1] # last_op.pages[2]

\* the union bounding rectangle (x, y, width, height) of stored rectangles
StoredUnion(zone_heap, zones) ==
    LET left == SetMin({zone_heap[zones[i]].x : i \in 1..Len(zones)})
        low == SetMin({zone_heap[zones[i]].y : i \in 1..Len(zones)})
        right == SetMax({zone_heap[zones[i]].x + zone_heap[zones[i]].width :
                           i \in 1..Len(zones)})
        high == SetMax({zone_heap[zones[i]].y + zone_heap[zones[i]].height :
                          i \in 1..Len(zones)})
    IN  [x |-> left, y |-> low, width |-> right - left, height |-> high - low]

\* C21: a successful merge of k >= 2 zones of one page replaces them by
\* exactly one new zone: the page has k - 1 fewer zones, the new zone's
\* stored rectangle is the union bounding rectangle of the merged zones'
\* stored rectangles, its type is the first selected zone's type and its
\* block_id is the block_id the first merged zone had before the merge.
C21_MergeReplacesByUnion ==
    [][(last_op'.op = "merge" /\ last_op'.outcome = "ok")
       => LET merged == last_op'.zones
              p == last_op'.pages[1]
              new == Len(heap')
              u == StoredUnion(heap, merged)
          IN  /\ Len(zones_data_by_page'[p])
                 = Len(zones_data_by_page[p]) - (Len(merged) - 1)
              /\ new \in SeqToSet(zones_data_by_page'[p])
              /\ SeqToSet(zones_data_by_page'[p])
                 = (SeqToSet(zones_data_by_page[p]) \ SeqToSet(merged))
                   \cup {new}
              /\ heap'[new].x = u.x /\ heap'[new].y = u.y
              /\ heap'[new].width = u.width /\ heap'[new].height = u.height
              /\ heap'[new].type = heap[merged[1]].type
              /\ heap'[new].block_id = heap[merged[1]].block_id]_vars

\* the stored rectangle mergezones gives the zones when they are merged in
\* one operation: their items are drawn at RectOf
MergedAtOnce(zone_heap, zones) ==
    FromScene(United([i \in 1..Len(zones) |->
                        [pg |-> 0, z |-> zones[i],
                         rect |-> RectOf(zone_heap[zones[i]])]]))

\* C22: merging is associative on the stored geometry: merging two of the
\* zones A, B, C of a page and then the resulting zone with the third one
\* gives the same stored rectangle as merging A, B and C in one operation.
\* (Zones 1..3 are the drawn ones, zone 4 the result of the first merge and
\* zone 5 the result of the second.)
C22_MergeAssociative ==
    (/\ Len(heap) = MaxMergeZones + 2
     /\ last_op.op = "merge" /\ last_op.outcome = "ok"
     /\ MaxMergeZones + 1 \in SeqToSet(last_op.zones)
     /\ Len(last_op.zones) = 2)
    => LET both == heap[MaxMergeZones + 2]
           once == MergedAtOnce(heap, [i \in 1..MaxMergeZones |-> i])
       IN  /\ both.x = once.x /\ both.y = once.y
           /\ both.width = once.width /\ both.height = once.height

\* C23: a block_id that belonged to a zone that was deleted or merged away
\* is never assigned to another zone later in the session: no zone of a
\* page's list carries a retired block_id.
C23_RetiredIdNeverReused ==
    \A p \in Pages :
        \A i \in 1..Len(zones_data_by_page[p]) :
            heap[zones_data_by_page[p][i]].block_id \notin retired

\* C24: a delete removes exactly the selected zones from their page's list
\* and leaves the sequence_number and every other field of every remaining
\* zone unchanged.
C24_DeleteLeavesOthersUnchanged ==
    [][(last_op'.op = "delete" /\ last_op'.outcome = "ok")
       => \A p \in Pages :
             /\ zones_data_by_page'[p]
                = SelectSeq(zones_data_by_page[p],
                            LAMBDA z : z \notin SeqToSet(last_op'.zones))
             /\ \A i \in 1..Len(zones_data_by_page'[p]) :
                   heap'[zones_data_by_page'[p][i]]
                   = heap[zones_data_by_page'[p][i]]]_vars

\* C25: releasing the pointer on a selected zone whose on-screen rectangle
\* was neither moved nor resized is a no-op on the Zone Store: no field of
\* any zone and no page list changes, for the first release after the zone
\* came from the pipeline as well as for later ones.
C25_ReleaseWithoutMoveIsNoOp ==
    [][(/\ last_op'.op = "update_geometry"
        /\ last_op'.arg = "unmoved"
        /\ Len(last_op'.zones) = 1)
       => /\ heap' = heap
          /\ zones_data_by_page' = zones_data_by_page]_vars

\* C26: retype(zone, new_type) applied to any zone of the store, pipeline
\* zone or zone the user created, sets that zone's type to new_type and its
\* zone_color to the colour of new_type, leaves its other fields unchanged
\* and changes no other zone.
C26_RetypeSetsTypeAndColor ==
    [][(/\ last_op'.op = "retype"
        /\ edits' = edits + 1
        /\ \A i \in 1..Len(last_op'.zones) :
              last_op'.zones[i] \in Listed(zones_data_by_page))
       => /\ Len(heap') = Len(heap)
          /\ \A z \in 1..Len(heap) :
                heap'[z] = IF z \in SeqToSet(last_op'.zones)
                           THEN [heap[z] EXCEPT
                                   !.type = last_op'.arg,
                                   !.zone_color = ColorOf(last_op'.arg)]
                           ELSE heap[z]]_vars

\* C27: swap_sequence on exactly two zones of the same page exchanges their
\* sequence_number values and changes nothing else: every other field of the
\* two zones, every other zone and the page lists are unchanged; with a
\* selection of any other size, or zones of different pages, it is rejected
\* and nothing changes.
C27_SwapExchangesSequenceNumbers ==
    [][(/\ last_op'.op = "swap_sequence"
        /\ edits' = edits + 1
        /\ \A i \in 1..Len(last_op'.zones) :
              last_op'.zones[i] \in Listed(zones_data_by_page))
       => /\ zones_data_by_page' = zones_data_by_page
          /\ Len(heap') = Len(heap)
          /\ IF /\ Len(last_op'.zones) = 2
                /\ heap[last_op'.zones[1]].page = heap[last_op'.zones[2]].page
             THEN LET a == last_op'.zones[1]
                      b == last_op'.zones[2]
                  IN  /\ last_op'.outcome = "ok"
                      /\ \A z \in 1..Len(heap) :
                            heap'[z] =
                              IF z = a
                              THEN [heap[a] EXCEPT !.sequence_number =
                                                      heap[b].sequence_number]
                              ELSE IF z = b
                              THEN [heap[b] EXCEPT !.sequence_number =
                                                      heap[a].sequence_number]
                              ELSE heap[z]
             ELSE /\ last_op'.outcome = "rejected"
                  /\ heap' = heap]_vars

\* C28: after a successful interactive insert the list of the current page
\* contains the new zone, is in reading order (column, then descending y),
\* and its i-th zone has block_id pz{page+1}-{i}, span_id z{page+1}-{i} and
\* sequence_number i.
C28_InsertKeepsReadingOrderNumbering ==
    [][(/\ last_op'.op = "insert"
        /\ last_op'.outcome = "ok"
        /\ edits' = edits + 1)
       => LET zones == zones_data_by_page'[current_page']
              key(i) == ReadingOrderKey(heap'[zones[i]])
          IN  /\ last_op'.zones[1] \in SeqToSet(zones)
              /\ \A i, k \in 1..Len(zones) :
                    i < k => \/ key(i)[1] < key(k)[1]
                             \/ /\ key(i)[1] = key(k)[1]
                                /\ key(i)[2] <= key(k)[2]
              /\ \A i \in 1..Len(zones) :
                    /\ heap'[zones[i]].block_id = <<current_page' + 1, i>>
                    /\ heap'[zones[i]].span_id = <<current_page' + 1, i>>
                    /\ heap'[zones[i]].sequence_number = i]_vars

\* C29: once another document is open, the Zone Store never acquires a zone
\* of the earlier document: a page batch that a job submitted for an
\* earlier document delivers is discarded as stale, the delivery changes
\* neither the zone dicts nor the page lists nor the flat list.
C29_StaleBatchDiscarded ==
    [][(/\ ui_events # <<>>
        /\ ui_events' = Tail(ui_events)
        /\ Head(ui_events).doc # pdf_doc)
       => UNCHANGED <<heap, zones_data_by_page, zones_data>>]_vars

C31_DetectorCallsSerialized ==
    \A v, w \in Workers :
        (wk[v].pc = "detecting" /\ wk[w].pc = "detecting") => v = w

\* C32: the layout detector is constructed at most once, whatever the
\* number of jobs and workers and however the workers' first calls of the
\* accessor interleave, and every worker that has left the accessor holds
\* that one instance and runs its jobs with it.
C32_DetectorConstructedOnce ==
    /\ constructed <= 1
    /\ \A w \in Workers :
          wk[w].pc \notin {"get_pred", "pred_lock", "pred_recheck",
                           "pred_return"}
          => /\ constructed = 1
             /\ predictor[w] = 1
             /\ predictor_instance = 1

\* a worker found no instance and waits for the lock while another worker
\* has constructed the detector and is in a detector call of its job
C32_Witness ==
    \E v, w \in Workers :
        /\ v # w
        /\ wk[v].pc = "pred_lock"
        /\ constructed = 1
        /\ predictor_instance = 1
        /\ predictor[w] = 1
        /\ wk[w].pc = "detecting"

\* C33: saving a non-empty Zone Store to the JSON array and loading it again
\* reproduces the same per-page zone lists: every zone under the same page
\* key, in the same order, with every field equal.
C33_SaveLoadRoundTrip ==
    Listed(zones_data_by_page) # {}
    => \A pg \in Pages :
          LoadedZonesByPage(SaveZonesToJson(heap, zones_data_by_page))[pg]
          = PageZones(heap, zones_data_by_page, pg)

\* C34: when a submit with policy replace returns, every job that was
\* enqueued before it and has not finished has its cancellation flag set,
\* also a job a worker had taken from the queue but not yet recorded as the
\* current job when the submit ran.
C34_ReplaceCancelsEveryEarlierJob ==
    [][\A c \in Callers :
         (cl[c].pc = "s_put" /\ cl[c].op = "replace" /\ cl'[c].pc = "idle")
         => \A j \in SeqToSet(enq_order) :
               life'[j] \in {"queued", "taken", "running"}
               => cancel_event'[j]]_vars

\* C35: cancel(job_id) of a job that was pending when cancel was called,
\* also while a worker is taking the next job from the queue, neither loses
\* nor reorders the other pending jobs: when cancel ends, every job it had
\* moved aside is back in the queue, no job is lost, and the queue is in the
\* order of submission.
C35_CancelKeepsOtherPendingJobs ==
    [][\A c \in Callers :
         (cl[c].op = "cancel" /\ cl[c].at_call = "queued"
          /\ cl[c].pc \in {"c_empty", "c_get"} /\ cl'[c].pc = "idle")
         => /\ \A j \in SeqToSet(cl[c].new_q) : j \in SeqToSet(jobs')
            /\ \A j \in JobIds : life'[j] # "lost"
            /\ \A i, k \in 1..Len(jobs') :
                 (i < k /\ jobs'[i] # NoJob /\ jobs'[k] # NoJob)
                 => Position(jobs'[i]) < Position(jobs'[k])]_vars

\* C36: the current-job slot names a job only while a worker is executing
\* it: when the slot names a job whose on_finish has been invoked (a job
\* that ran, or one skipped because it was cancelled when dequeued), a worker
\* is in the finally clause of that job, about to clear the slot; otherwise
\* cancel(job_id) of the finished job would return true.
C36_SlotNamesOnlyExecutingJob ==
    (current_job # NoJob /\ fin[current_job] > 0)
    => \E w \in Workers : wk[w].pc = "clear" /\ wk[w].job = current_job

\* C37: with more than one worker, cancel(job_id) of a job that is running
\* on any worker finds it in the current-job slot (it sets the job's
\* cancellation flag and returns true): cancel never goes on to search the
\* queue for a job that a worker is executing, whatever the other workers
\* have taken or finished meanwhile.
C37_CancelReachesEveryRunningJob ==
    [][\A c \in Callers :
         (cl[c].pc = "idle" /\ cl'[c].pc = "c_empty" /\ cl'[c].op = "cancel")
         => ~ \E w \in Workers :
                /\ wk[w].pc \in {"batch", "raster", "detect", "conv"}
                /\ wk[w].job = cl'[c].job]_vars

\* C38: the job ids submit hands out are unique, and under the queue policy
\* jobs run in increasing job_id order also when several threads call
\* submit at once: the jobs enqueued have distinct ids, and when a worker
\* has taken a job, no job with a smaller id is still waiting in the queue.
C38_JobsRunInIdOrder ==
    /\ \A i, k \in 1..Len(enq_order) : i # k => enq_order[i] # enq_order[k]
    /\ \A c, d \in Callers :
         (c # d /\ cl[c].job # NoJob) => cl[c].job # cl[d].job
    /\ \A j, k \in JobIds :
         (j < k /\ life[k] \in {"taken", "running", "finished"})
         => life[j] # "queued"

\* C39: a zone the user created on a page is still in that page's zone list
\* after a page batch is delivered: the step that stores a batch keeps, on
\* every page, each zone the list held that createzone had built.
C39_BatchKeepsUserZones ==
    [][(ui_events # <<>> /\ ui_events' = Tail(ui_events))
       => \A p \in Pages :
            \A z \in SeqToSet(zones_data_by_page[p]) :
               heap[z].action_type = "new_zone"
               => /\ z \in SeqToSet(zones_data_by_page'[p])
                  /\ heap'[z] = heap[z]]_vars

====
